---- MODULE Spec2Model ----
(***************************************************************************)
(* A model of hexsweep (src/try.py): a hexagonal minesweeper.              *)
(*                                                                         *)
(* The program keeps one list of Hex objects (hex_grid).  The model keeps  *)
(* it as a sequence of records in the list's order, because every lookup   *)
(* of the program (`next(h for h in hex_grid if ...)`, the hit test's      *)
(* `for hex in hex_grid: ... break`) returns the FIRST match in that       *)
(* order.  The cosmetic field `color` is never read by the game logic and  *)
(* is left out.                                                            *)
(*                                                                         *)
(* Four specifications run the code at the grain each needs:               *)
(*   SpecCreate  create_hex_grid, one step per iteration of its loops      *)
(*   SpecSetup   place_mines (one step per iteration of its while loop,    *)
(*               called once and then once more without a reset) and       *)
(*               calculate_adjacent_mines                                  *)
(*   SpecFlood   reveal_hex, one step per iteration of its for loop, with  *)
(*               the recursion as an explicit call stack                   *)
(*   Spec        main(): set-up, then the event loop, one step per event   *)
(***************************************************************************)
EXTENDS Integers, Sequences, FiniteSets

VARIABLES
    pc,             \* where the program is
    rings,          \* create_hex_grid's argument
    hex_grid,       \* the list of Hex objects
    q,              \* create_hex_grid's outer loop variable
    r,              \* create_hex_grid's inner loop variable
    num_mines,      \* place_mines' argument
    mines_placed,   \* place_mines' local counter
    calls,          \* calls made so far of the function under study
    running,        \* main's loop flag
    pending,        \* events of the polled batch not yet handled
    frames,         \* iterations of main's while loop started so far
    hex,            \* main's hit-test loop variable (index into hex_grid)
    game_overs,     \* times game_over() has run
    stack,          \* reveal_hex's call stack: frames [h, d]
    reveal_events,  \* per cell: times lines 121-122 ran for it (the
                    \* "reveal" sound, played when reveal.wav was loaded)
    arg,            \* SpecFlood: the cell of the latest top-level call
    before          \* SpecFlood: the cells revealed when that call was made

vars == <<pc, rings, hex_grid, q, r, num_mines, mines_placed, calls,
          running, pending, frames, hex, game_overs, stack,
          reveal_events, arg, before>>

createVars == <<q, r>>
placeVars == <<num_mines, mines_placed>>
loopVars == <<running, pending, frames, hex, game_overs>>
floodVars == <<stack, reveal_events>>
callVars == <<calls, arg, before>>

(***************************************************************************)
(* Bounds of the model.                                                    *)
(***************************************************************************)
MaxCreateRings == 4     \* SpecCreate: rings in 0..MaxCreateRings
MaxRings == 1           \* the other specifications: rings in 0..MaxRings
MaxMines == 2           \* num_mines in 0..MaxMines
FloodMines == 1         \* SpecFlood: mines on the board
MaxRevealCalls == 2     \* SpecFlood: top-level calls of reveal_hex
MaxBatch == 2           \* Spec: events returned by one pygame.event.get()
MaxFrames == 2          \* Spec: iterations of main's while loop
MaxEvents == 2          \* cap of the per-cell event counter

(***************************************************************************)
(* Hex: the class and its constructor.                                     *)
(***************************************************************************)
\* (mutant) the third direction mistyped: (1, 1) for (-1, 1).
DirectionsTypo == << <<1, 0>>, <<0, 1>>, <<1, 1>>, <<-1, 0>>, <<0, -1>>, <<1, -1>> >>

\* Hex._directions, in the list's order.
Directions == << <<1, 0>>, <<0, 1>>, <<-1, 1>>, <<-1, 0>>, <<0, -1>>, <<1, -1>> >>

\* Hex.__init__(q, r): is_mine defaults to False.
Hex(hq, hr) ==
    [q |-> hq, r |-> hr, is_mine |-> FALSE, revealed |-> FALSE,
     adjacent_mines |-> 0]

\* next((h for h in hex_grid if h.q == nq and h.r == nr), None):
\* the index of the first match, 0 for None.
FindHex(grid, nq, nr) ==
    LET S == {k \in 1..Len(grid) : grid[k].q = nq /\ grid[k].r = nr}
    IN  IF S = {} THEN 0 ELSE CHOOSE k \in S : \A j \in S : k <= j

\* The neighbour of grid[i] in direction d (an index into Directions).
Neighbor(grid, i, d) ==
    FindHex(grid, grid[i].q + Directions[d][1], grid[i].r + Directions[d][2])

(***************************************************************************)
(* create_hex_grid                                                         *)
(***************************************************************************)
\* (mutant) only the upper half of the range test.
ValidPositionUpperOnly(n, cq, cr) ==
    LET s == -cq - cr IN s <= n

\* s = -q - r;  -rings <= s <= rings
ValidPosition(n, cq, cr) ==
    LET s == -cq - cr IN -n <= s /\ s <= n

\* The body of the inner loop.
CreateBody(grid, n, cq, cr) ==
    IF ValidPosition(n, cq, cr) THEN Append(grid, Hex(cq, cr)) ELSE grid

\* The pairs (q, r) the two nested `for ... in range(-rings, rings + 1)`
\* loops visit, in the order they visit them.
LoopPairs(n) ==
    [k \in 1..((2 * n + 1) * (2 * n + 1)) |->
        <<-n + ((k - 1) \div (2 * n + 1)), -n + ((k - 1) % (2 * n + 1))>>]

\* create_hex_grid(rings), run to its return: a Hex for every visited pair
\* that passes the range test, in the order visited.
create_hex_grid(n) ==
    LET Valid(p) == ValidPosition(n, p[1], p[2])
        kept == SelectSeq(LoopPairs(n), Valid)
    IN  [k \in 1..Len(kept) |-> Hex(kept[k][1], kept[k][2])]

\* One iteration of the inner loop (or, when the inner range is exhausted,
\* the step of the outer loop to its next q).
CreateIter ==
    /\ pc = "create"
    /\ q <= rings
    /\ IF r <= rings
       THEN /\ hex_grid' = CreateBody(hex_grid, rings, q, r)
            /\ r' = r + 1
            /\ q' = q
       ELSE /\ hex_grid' = hex_grid
            /\ q' = q + 1
            /\ r' = -rings
    /\ UNCHANGED <<pc, rings>>
    /\ UNCHANGED <<placeVars, loopVars, floodVars, callVars>>

\* return hex_set
CreateReturn ==
    /\ pc = "create"
    /\ q > rings
    /\ pc' = "created"
    /\ UNCHANGED <<rings, hex_grid, q, r>>
    /\ UNCHANGED <<placeVars, loopVars, floodVars, callVars>>

\* The state shared by every specification's initial condition.
InitRest ==
    /\ mines_placed = 0
    /\ calls = 0
    /\ arg = 0
    /\ before = {}
    /\ running = FALSE
    /\ pending = 0
    /\ frames = 0
    /\ hex = 0
    /\ game_overs = 0
    /\ stack = <<>>
    /\ reveal_events = <<>>

InitCreate ==
    /\ pc = "create"
    /\ rings \in 0..MaxCreateRings
    /\ hex_grid = <<>>
    /\ q = -rings
    /\ r = -rings
    /\ num_mines = 0
    /\ InitRest

NextCreate == CreateIter \/ CreateReturn

SpecCreate == InitCreate /\ [][NextCreate]_vars

(***************************************************************************)
(* Views of the board used by the properties.                              *)
(***************************************************************************)
Cells == 1..Len(hex_grid)
MineSet == {i \in Cells : hex_grid[i].is_mine}
RevealedSet == {i \in Cells : hex_grid[i].revealed}

\* C6: when create_hex_grid(R) returns, the grid has exactly 3R^2+3R+1 cells,
\* no two with the same (q, r), each with |q|, |r|, |q+r| <= R and with
\* is_mine = FALSE, revealed = FALSE, adjacent_mines = 0.
C6_CreateBoard ==
    pc = "created" =>
        /\ Len(hex_grid) = 3 * rings * rings + 3 * rings + 1
        /\ \A i, j \in Cells :
              (hex_grid[i].q = hex_grid[j].q /\ hex_grid[i].r = hex_grid[j].r)
                  => i = j
        /\ \A i \in Cells :
              LET h == hex_grid[i] IN
              /\ -rings <= h.q /\ h.q <= rings
              /\ -rings <= h.r /\ h.r <= rings
              /\ -rings <= h.q + h.r /\ h.q + h.r <= rings
              /\ ~h.is_mine /\ ~h.revealed /\ h.adjacent_mines = 0
        /\ hex_grid = create_hex_grid(rings)

C6_Witness ==
    pc = "created" /\ rings = 2 /\ Len(hex_grid) = 19

(***************************************************************************)
(* place_mines                                                             *)
(***************************************************************************)
\* (mutant) the test of line 98 dropped: every pick counts.
CanPlaceAlways(h) == TRUE

\* if not hexagon.is_mine
CanPlace(h) == ~h.is_mine

\* The body of the while loop with random.choice(hex_grid) = hex_grid[i].
PlaceBody(grid, placed, i) ==
    IF CanPlace(grid[i])
    THEN [grid |-> [grid EXCEPT ![i].is_mine = TRUE], placed |-> placed + 1]
    ELSE [grid |-> grid, placed |-> placed]

\* One iteration of `while mines_placed < num_mines`; random.choice may
\* return any element of the list, the same one again included.
PlaceMinesIter ==
    /\ pc \in {"place", "place_again"}
    /\ mines_placed < num_mines
    /\ \E i \in Cells :
          LET b == PlaceBody(hex_grid, mines_placed, i) IN
          /\ hex_grid' = b.grid
          /\ mines_placed' = b.placed
    /\ UNCHANGED <<pc, rings, num_mines>>
    /\ UNCHANGED <<createVars, loopVars, floodVars, callVars>>

\* The loop's exit: place_mines returns.
PlaceMinesReturn ==
    /\ pc \in {"place", "place_again"}
    /\ ~(mines_placed < num_mines)
    /\ pc' = IF pc = "place" THEN "placed" ELSE "placed_again"
    /\ UNCHANGED <<rings, hex_grid>>
    /\ UNCHANGED <<createVars, placeVars, loopVars, floodVars, callVars>>

\* place_mines(hex_grid, count) called on the board create_hex_grid returned.
CallPlaceMines ==
    /\ pc = "created"
    /\ \E count \in 0..MaxMines : num_mines' = count
    /\ mines_placed' = 0
    /\ pc' = "place"
    /\ UNCHANGED <<rings, hex_grid>>
    /\ UNCHANGED <<createVars, loopVars, floodVars, callVars>>

\* place_mines(hex_grid, count) called a second time, with no reset between.
CallPlaceMinesAgain ==
    /\ pc = "placed"
    /\ \E count \in 0..MaxMines : num_mines' = count
    /\ mines_placed' = 0
    /\ pc' = "place_again"
    /\ UNCHANGED <<rings, hex_grid>>
    /\ UNCHANGED <<createVars, loopVars, floodVars, callVars>>

(***************************************************************************)
(* calculate_adjacent_mines                                                *)
(***************************************************************************)
\* (mutant) every neighbour that exists is counted.
CountsAsMineAny(grid, n) == n # 0

\* if neighbor and neighbor.is_mine
CountsAsMine(grid, n) == n # 0 /\ grid[n].is_mine

\* The inner loop over Hex._directions from direction d on: the number of
\* directions whose neighbour exists and is a mine.
RECURSIVE AdjacentCount(_, _, _)
AdjacentCount(grid, i, d) ==
    IF d > Len(Directions) THEN 0
    ELSE (IF CountsAsMine(grid, Neighbor(grid, i, d)) THEN 1 ELSE 0)
             + AdjacentCount(grid, i, d + 1)

\* The whole function: mines are skipped (`continue`), every other cell gets
\* its count.  The loop reads only q, r and is_mine, which it never writes.
calculate_adjacent_mines(grid) ==
    [i \in 1..Len(grid) |->
        IF grid[i].is_mine THEN grid[i]
        ELSE [grid[i] EXCEPT !.adjacent_mines = AdjacentCount(grid, i, 1)]]

\* calculate_adjacent_mines(hex_grid) called once mines are placed.
CallCalculateAdjacentMines ==
    /\ pc \in {"placed", "placed_again"}
    /\ hex_grid' = calculate_adjacent_mines(hex_grid)
    /\ pc' = "calculated"
    /\ UNCHANGED rings
    /\ UNCHANGED <<createVars, placeVars, loopVars, floodVars, callVars>>

InitSetup ==
    /\ pc = "created"
    /\ rings \in 0..MaxRings
    /\ hex_grid = create_hex_grid(rings)
    /\ q = rings + 1
    /\ r = -rings
    /\ num_mines = 0
    /\ InitRest

NextSetup ==
    \/ CallPlaceMines
    \/ CallPlaceMinesAgain
    \/ PlaceMinesIter
    \/ PlaceMinesReturn
    \/ CallCalculateAdjacentMines

SpecSetup == InitSetup /\ [][NextSetup]_vars

\* place_mines is in its loop with every cell a mine and mines still to
\* place: every pick is a mine, so no iteration changes anything.
PlaceStuck ==
    /\ pc \in {"place", "place_again"}
    /\ mines_placed < num_mines
    /\ MineSet = Cells

\* C3: place_mines called with a count above the number of cells fails
\* fast: it is never found stuck in its loop.
C3_FailsFast ==
    num_mines > Len(hex_grid) => ~PlaceStuck

\* Once stuck, place_mines stays stuck: the loop never ends.
StuckForever == [][PlaceStuck => PlaceStuck']_vars

\* C4: on a board with no mines and for a count C <= number of cells, the
\* counter equals the number of mine cells throughout the call, and at the
\* return exactly C cells are mines.
C4_PlacesExactly ==
    (pc \in {"place", "placed"} /\ num_mines <= Len(hex_grid)) =>
        /\ mines_placed = Cardinality(MineSet)
        /\ pc = "placed" => Cardinality(MineSet) = num_mines

C4_Witness ==
    pc = "placed" /\ num_mines = 2 /\ Cardinality(MineSet) = 2 /\ rings = 1

\* The six axial steps between a cell and its neighbours.
AxialSteps ==
    {<<1, 0>>, <<0, 1>>, <<-1, 1>>, <<-1, 0>>, <<0, -1>>, <<1, -1>>}

\* Cell j is one axial step away from cell i.
Adjacent(i, j) ==
    <<hex_grid[j].q - hex_grid[i].q, hex_grid[j].r - hex_grid[i].r>>
        \in AxialSteps

\* The cells of the board that are one direction away from cell i.
NeighborSet(i) == {j \in Cells : Adjacent(i, j)}

\* C5: after calculate_adjacent_mines every non-mine cell's adjacent_mines is
\* the number of its neighbours that are on the board and are mines, and it
\* lies in 0..6.
C5_Adjacency ==
    pc = "calculated" =>
        \A i \in Cells :
            ~hex_grid[i].is_mine =>
                /\ hex_grid[i].adjacent_mines
                      = Cardinality(NeighborSet(i) \cap MineSet)
                /\ hex_grid[i].adjacent_mines \in 0..6

C5_Witness ==
    /\ pc = "calculated"
    /\ \E i, j \in Cells :
          /\ ~hex_grid[i].is_mine /\ hex_grid[i].adjacent_mines >= 3
          /\ Cardinality(NeighborSet(i)) = 6
          /\ ~hex_grid[j].is_mine /\ hex_grid[j].adjacent_mines >= 1
          /\ Cardinality(NeighborSet(j)) < 6

\* C9: a call of place_mines on a board that already has exactly C mines
\* adds no mine and removes none.  (mines_placed = 0 in the loop: the call
\* has placed nothing yet, so the board is the one it was called on.)
C9_Idempotent ==
    [][(pc = "place_again" /\ mines_placed = 0
            /\ Cardinality(MineSet) = num_mines)
        => MineSet' = MineSet]_vars

(***************************************************************************)
(* reveal_hex                                                              *)
(***************************************************************************)
\* (mutant) the guard of line 118 dropped.
AlreadyRevealedNever(h) == FALSE

\* if hexagon.revealed: return
AlreadyRevealed(h) == h.revealed

\* (mutant) the flood continues from numbered cells too.
ShouldFloodAnyNumber(h) == ~h.is_mine

\* if hexagon.adjacent_mines == 0 and not hexagon.is_mine
ShouldFlood(h) == h.adjacent_mines = 0 /\ ~h.is_mine

\* (mutant) line 120 dropped: the cell is never marked.
MarkRevealedNot(grid, i) == grid

\* hexagon.revealed = True
MarkRevealed(grid, i) == [grid EXCEPT ![i].revealed = TRUE]

\* if sounds["reveal"]: sounds["reveal"].play()
\* The event is counted whether or not a sound file was found.
SignalReveal(i) ==
    [reveal_events EXCEPT ![i] = IF @ < MaxEvents THEN @ + 1 ELSE @]

\* The entry of reveal_hex(hex_grid[i], ...) up to its for loop (lines
\* 118-123), called with `below` as the frames of its callers: either it
\* returns at once, or it marks the cell, signals the event and, for a
\* zero-count non-mine cell, enters its loop at the first direction.
EnterRevealHex(i, below) ==
    IF AlreadyRevealed(hex_grid[i])
    THEN /\ UNCHANGED <<hex_grid, reveal_events>>
         /\ stack' = below
    ELSE /\ hex_grid' = MarkRevealed(hex_grid, i)
         /\ reveal_events' = SignalReveal(i)
         /\ stack' = IF ShouldFlood(hex_grid[i])
                     THEN Append(below, [h |-> i, d |-> 1])
                     ELSE below

\* A top-level call reveal_hex(hex_grid[i], hex_grid, sounds), on any cell.
CallRevealHex ==
    /\ pc = "ready"
    /\ stack = <<>>
    /\ calls < MaxRevealCalls
    /\ calls' = calls + 1
    /\ before' = RevealedSet
    /\ \E i \in Cells :
          /\ arg' = i
          /\ EnterRevealHex(i, <<>>)
    /\ UNCHANGED <<pc, rings>>
    /\ UNCHANGED <<createVars, placeVars, loopVars>>

\* One iteration of the for loop of the innermost running call: look the
\* neighbour up and, if there is one, call reveal_hex on it.  The model
\* keeps at most one frame per cell and one more; a call that would go
\* deeper does not proceed.
RevealLoop ==
    /\ stack # <<>>
    /\ stack[Len(stack)].d <= Len(Directions)
    /\ Len(stack) <= Len(hex_grid)
    /\ LET top == stack[Len(stack)]
           n == Neighbor(hex_grid, top.h, top.d)
           advanced == [stack EXCEPT ![Len(stack)].d = @ + 1]
       IN  IF n # 0
           THEN EnterRevealHex(n, advanced)
           ELSE /\ UNCHANGED <<hex_grid, reveal_events>>
                /\ stack' = advanced
    /\ UNCHANGED <<pc, rings>>
    /\ UNCHANGED <<createVars, placeVars, loopVars, callVars>>

\* The for loop of the innermost running call is exhausted: it returns.
RevealReturn ==
    /\ stack # <<>>
    /\ stack[Len(stack)].d > Len(Directions)
    /\ stack' = SubSeq(stack, 1, Len(stack) - 1)
    /\ UNCHANGED <<pc, rings, hex_grid, reveal_events>>
    /\ UNCHANGED <<createVars, placeVars, loopVars, callVars>>

\* What place_mines leaves when its picks mark exactly the cells of M.
WithMines(grid, M) ==
    [i \in 1..Len(grid) |-> [grid[i] EXCEPT !.is_mine = (i \in M)]]

\* The boards main() plays on after its set-up, for a board of radius n and
\* up to k mines: created, mines placed, counts calculated.
SetUpBoards(n, k) ==
    LET grid == create_hex_grid(n) IN
    {calculate_adjacent_mines(WithMines(grid, M)) :
        M \in {X \in SUBSET (1..Len(grid)) : Cardinality(X) <= k}}

InitFlood ==
    /\ pc = "ready"
    /\ rings \in 0..MaxRings
    /\ hex_grid \in SetUpBoards(rings, FloodMines)
    /\ q = rings + 1
    /\ r = -rings
    /\ num_mines = Cardinality(MineSet)
    /\ mines_placed = num_mines
    /\ calls = 0
    /\ arg = 0
    /\ before = {}
    /\ running = FALSE
    /\ pending = 0
    /\ frames = 0
    /\ hex = 0
    /\ game_overs = 0
    /\ stack = <<>>
    /\ reveal_events = [i \in Cells |-> 0]

NextFlood == CallRevealHex \/ RevealLoop \/ RevealReturn

SpecFlood == InitFlood /\ [][NextFlood]_vars

\* The interpreter runs the call in progress to its next step.
FairSpecFlood ==
    SpecFlood /\ WF_vars(RevealLoop) /\ WF_vars(RevealReturn)

\* C7: no step changes the state of a cell that is already revealed or
\* signals the reveal event for it again, no step opens a loop (a frame) for
\* a cell that was already revealed, and no cell's event is signalled twice.
C7_RevealOnce ==
    [][/\ \A i \in Cells :
             hex_grid[i].revealed =>
                 (hex_grid'[i] = hex_grid[i]
                    /\ reveal_events'[i] = reveal_events[i])
       /\ Len(stack') > Len(stack) =>
             ~hex_grid[stack'[Len(stack')].h].revealed
       /\ \A i \in Cells : reveal_events'[i] <= 1]_vars

C7_Witness ==
    /\ calls = 2
    /\ stack = <<>>
    /\ Cardinality(RevealedSet) = 1
    /\ \E i \in Cells : hex_grid[i].revealed /\ reveal_events[i] = 1

\* The number of loop iterations and returns a running call can still make
\* if every unrevealed cell is yet to be flooded.
RECURSIVE StepsLeft(_, _)
StepsLeft(stk, k) ==
    IF k = 0 THEN 0 ELSE (8 - stk[k].d) + StepsLeft(stk, k - 1)

Variant ==
    8 * (Len(hex_grid) - Cardinality(RevealedSet)) + StepsLeft(stack, Len(stack))

\* C10: every call of reveal_hex returns: revealed never goes back to
\* FALSE, the calls in progress are for distinct revealed cells (so the
\* recursion is never deeper than the board has cells), and every step of a
\* running call lowers Variant, a natural number (a step that does not
\* return at once reveals one more cell), so the call has returned after at
\* most Variant steps.
C10_Terminates ==
    /\ [][\A i \in Cells : hex_grid[i].revealed => hex_grid'[i].revealed]_vars
    /\ [][stack # <<>> => (Variant' < Variant /\ Variant' >= 0)]_vars
    /\ [](\A k \in 1..Len(stack) :
              /\ hex_grid[stack[k].h].revealed
              /\ \A m \in 1..(k - 1) : stack[m].h # stack[k].h)

C10_Witness ==
    /\ calls >= 1
    /\ stack = <<>>
    /\ Cardinality(RevealedSet) = Len(hex_grid) - 1
    /\ Cardinality(MineSet) = 1
    /\ rings = 1

\* The same as a liveness property of FairSpecFlood.
RevealReturns == (stack # <<>>) ~> (stack = <<>>)

\* The zero-count non-mine cells.
ZeroCells ==
    {i \in Cells : ~hex_grid[i].is_mine /\ hex_grid[i].adjacent_mines = 0}

\* The connected region of zero-count cells that contains S.
RECURSIVE ZeroRegion(_)
ZeroRegion(S) ==
    LET T == S \cup {j \in ZeroCells : \E k \in S : Adjacent(k, j)}
    IN  IF T = S THEN S ELSE ZeroRegion(T)

\* The numbered (non-zero, non-mine) cells next to a cell of region S.
NumberedBorder(S) ==
    {j \in Cells :
        /\ ~hex_grid[j].is_mine
        /\ hex_grid[j].adjacent_mines # 0
        /\ \E k \in S : Adjacent(k, j)}

\* A top-level call on an unrevealed zero-count non-mine cell has returned.
FloodReturned ==
    /\ stack = <<>>
    /\ arg \in ZeroCells
    /\ arg \notin before

\* C1 as stated: the cells newly revealed by such a call are exactly the
\* cell's zero region and the numbered cells bordering it.
C1_NewlyRevealedExactly ==
    FloodReturned =>
        LET region == ZeroRegion({arg}) IN
        RevealedSet \ before = region \cup NumberedBorder(region)

\* C1 as amended: the cells revealed after such a call are those revealed
\* before it, the cell's zero region and the numbered cells bordering it;
\* so the newly revealed ones are those of the region and its border that
\* were not revealed already, and no mine among them.
C1_FloodFill ==
    FloodReturned =>
        LET region == ZeroRegion({arg}) IN
        /\ RevealedSet = before \cup region \cup NumberedBorder(region)
        /\ (RevealedSet \ before) \cap MineSet = {}
        /\ (rings = 1 /\ MineSet = {}) => Cardinality(RevealedSet) = 7

C1_Witness ==
    /\ FloodReturned
    /\ rings = 1
    /\ Cardinality(MineSet) = 1
    /\ Cardinality(ZeroRegion({arg})) = 3
    /\ Cardinality(NumberedBorder(ZeroRegion({arg}))) = 3
    /\ Cardinality(before) = 1
    /\ before \subseteq NumberedBorder(ZeroRegion({arg}))

(***************************************************************************)
(* main                                                                    *)
(***************************************************************************)
\* The hit test of lines 167-175 accepts every cell whose centre is less
\* than HEX_SIZE from the click.  Centres of adjacent cells are
\* HEX_SIZE * sqrt(3) apart and all others at least 3 * HEX_SIZE, so a click
\* lies in no such disc, in exactly one, or in those of two adjacent cells
\* (the three discs of mutually adjacent cells meet in the point at exactly
\* HEX_SIZE from each centre, which `<` excludes).
HitSets ==
    {{}} \cup {{i} : i \in Cells}
         \cup {{p[1], p[2]} : p \in {x \in Cells \X Cells : Adjacent(x[1], x[2])}}

\* `for hex in hex_grid: if <hit>: ...; break`: the first hit in list order,
\* 0 when the loop runs to its end without one.
FirstHit(hits) ==
    IF hits = {} THEN 0 ELSE CHOOSE i \in hits : \A j \in hits : i <= j

\* Lines 150-152: the board is created and place_mines is called.  The
\* radius (5 in the program) and NUM_MINES (10) are the model's parameters.
MainCreate ==
    /\ pc = "main"
    /\ hex_grid' = create_hex_grid(rings)
    /\ reveal_events' = [i \in 1..Len(hex_grid') |-> 0]
    /\ mines_placed' = 0
    /\ pc' = "place"
    /\ UNCHANGED <<rings, num_mines, stack>>
    /\ UNCHANGED <<createVars, loopVars, callVars>>

\* Lines 153-156: place_mines returns, the counts are calculated and the
\* loop flag is set.
MainCalculate ==
    /\ pc = "place"
    /\ ~(mines_placed < num_mines)
    /\ hex_grid' = calculate_adjacent_mines(hex_grid)
    /\ running' = TRUE
    /\ pc' = "poll"
    /\ UNCHANGED <<rings, pending, frames, hex, game_overs>>
    /\ UNCHANGED <<createVars, placeVars, floodVars, callVars>>

\* `while running:` holds and pygame.event.get() returns a batch of events.
PollEvents ==
    /\ pc = "poll"
    /\ running
    /\ frames < MaxFrames
    /\ frames' = frames + 1
    /\ \E n \in 0..MaxBatch : pending' = n
    /\ pc' = "events"
    /\ UNCHANGED <<rings, hex_grid, running, hex, game_overs>>
    /\ UNCHANGED <<createVars, placeVars, floodVars, callVars>>

\* The event is consumed.
Consumed ==
    /\ pc = "events"
    /\ stack = <<>>
    /\ pending > 0
    /\ pending' = pending - 1

\* event.type == pygame.QUIT
HandleQuit ==
    /\ Consumed
    /\ running' = FALSE
    /\ UNCHANGED <<pc, rings, hex_grid, frames, hex, game_overs>>
    /\ UNCHANGED <<createVars, placeVars, floodVars, callVars>>

\* event.type == pygame.KEYDOWN
HandleKeydown ==
    /\ Consumed
    /\ \E key \in {"K_ESCAPE", "other"} :
          running' = IF key = "K_ESCAPE" THEN FALSE ELSE running
    /\ UNCHANGED <<pc, rings, hex_grid, frames, hex, game_overs>>
    /\ UNCHANGED <<createVars, placeVars, floodVars, callVars>>

\* event.type == pygame.MOUSEBUTTONDOWN with button 1: the hit test; on a
\* mine game_over() and running = False, otherwise reveal_hex is called
\* (its loop then runs by RevealLoop and RevealReturn before the next event
\* is handled).  After the for loop `hex` is the cell it stopped on, the
\* last one when nothing was hit.
HandleLeftClick ==
    /\ Consumed
    /\ \E hits \in HitSets :
          LET target == FirstHit(hits) IN
          IF target = 0
          THEN /\ hex' = Len(hex_grid)
               /\ UNCHANGED <<hex_grid, running, game_overs, floodVars>>
          ELSE /\ hex' = target
               /\ IF hex_grid[target].is_mine
                  THEN /\ game_overs' = game_overs + 1
                       /\ running' = FALSE
                       /\ UNCHANGED <<hex_grid, floodVars>>
                  ELSE /\ EnterRevealHex(target, <<>>)
                       /\ UNCHANGED <<running, game_overs>>
    /\ UNCHANGED <<pc, rings, frames>>
    /\ UNCHANGED <<createVars, placeVars, callVars>>

\* Any other event: another mouse button, another event type.
HandleOther ==
    /\ Consumed
    /\ UNCHANGED <<pc, rings, hex_grid, running, frames, hex, game_overs>>
    /\ UNCHANGED <<createVars, placeVars, floodVars, callVars>>

\* Lines 177-190: the batch is exhausted, the frame is drawn.
EndFrame ==
    /\ pc = "events"
    /\ stack = <<>>
    /\ pending = 0
    /\ pc' = "poll"
    /\ UNCHANGED <<rings, hex_grid>>
    /\ UNCHANGED <<createVars, placeVars, loopVars, floodVars, callVars>>

\* `while running:` fails; lines 192-193.
MainExit ==
    /\ pc = "poll"
    /\ ~running
    /\ pc' = "exit"
    /\ UNCHANGED <<rings, hex_grid>>
    /\ UNCHANGED <<createVars, placeVars, loopVars, floodVars, callVars>>

Init ==
    /\ pc = "main"
    /\ rings \in 0..MaxRings
    /\ num_mines \in 0..MaxMines
    /\ hex_grid = <<>>
    /\ q = 0
    /\ r = 0
    /\ InitRest

Next ==
    \/ MainCreate
    \/ PlaceMinesIter
    \/ MainCalculate
    \/ PollEvents
    \/ HandleQuit
    \/ HandleKeydown
    \/ HandleLeftClick
    \/ HandleOther
    \/ RevealLoop
    \/ RevealReturn
    \/ EndFrame
    \/ MainExit

Spec == Init /\ [][Next]_vars

\* The session is in its event loop.
InLoop == pc \in {"poll", "events"}

\* C2: whenever a left click hits a mine (the one case in which game_over()
\* runs, `hex` being the cell hit), that cell is revealed afterwards and the
\* loop flag is off.
C2_MineRevealedAndLost ==
    [][game_overs' > game_overs =>
          (hex_grid'[hex'].revealed /\ ~running')]_vars

\* C8: once the session has left Playing (the loop flag is off), no later
\* event changes the board or runs game_over() again.
C8_InputIgnoredAfterEnd ==
    [][(InLoop /\ ~running) =>
          (hex_grid' = hex_grid /\ game_overs' = game_overs)]_vars

====
